---- MODULE Spec2Model ----
(***************************************************************************)
(* Model of the per-participant pipeline (step_mne/participant.py) and of  *)
(* the per-participant input broadcasting helpers (pipeline/io.py).        *)
(***************************************************************************)
EXTENDS Integers, Sequences, FiniteSets, TLC

VARIABLES
    frames,           \* call stack of participant_pipeline, one record per pass
    heap,             \* the dicts created by locals(), addressed by reference
    log,              \* collaborator calls made so far, in order, with their pass
    status,           \* "running", "returned" or "raised" (pipeline call)
    result,           \* the 4-tuple handed back to the outermost caller
    input,            \* argument of check_participant_input
    participant_ids,  \* argument of check_participant_input
    io_pc,            \* "call", "returned" or "raised" (check_participant_input)
    io_result         \* value returned by check_participant_input

vars == <<frames, heap, log, status, result,
          input, participant_ids, io_pc, io_result>>

pipeVars == <<frames, heap, log, status, result>>
ioVars == <<input, participant_ids, io_pc, io_result>>

-----------------------------------------------------------------------------
(* Bounds *)

MaxBads == 2        \* longest channel list (caller's or detector's)
MaxDepth == 3       \* recursion depth at which exploration stops
MaxIds == 2         \* most participant ids
MaxLen == 2         \* longest list / mapping override

-----------------------------------------------------------------------------
(* Python values: every value carries its type tag *)

None == [tag |-> "none", atom |-> "", items |-> <<>>]
Str(s) == [tag |-> "str", atom |-> s, items |-> <<>>]
PyInt(s) == [tag |-> "int", atom |-> s, items |-> <<>>]
PyFloat(s) == [tag |-> "float", atom |-> s, items |-> <<>>]
List(xs) == [tag |-> "list", atom |-> "", items |-> xs]
Dict(ps) == [tag |-> "dict", atom |-> "", items |-> ps]
DictValues(xs) == [tag |-> "dict_values", atom |-> "", items |-> xs]

Auto == Str("auto")

SeqsUpTo(S, n) == UNION {[1..k -> S] : k \in 0..n}

Range(s) == {s[i] : i \in DOMAIN s}

\* float(x)
FloatCast(x) == PyFloat(x.atom)

\* {key: int(value) for key, value in triggers.items()}
IntCoerce(d) == Dict([i \in DOMAIN d.items |->
                        [k |-> d.items[i].k, v |-> PyInt(d.items[i].v.atom)]])

-----------------------------------------------------------------------------
(* Inputs of participant_pipeline *)

Chans == {"Fp1", "Cz"}

ChannelLists == {List(xs) : xs \in SeqsUpTo({Str(c) : c \in Chans}, MaxBads)}

\* The caller's bad_channels: 'auto', None, one name, or an explicit list
BadChannelSpecs ==
    {Auto, None} \cup {Str(c) : c \in Chans}
    \cup {List(<<>>), List(<<Str("Fp1")>>), List(<<Str("Fp1"), Str("Cz")>>)}

Dirs == {None, Str("out")}

DirNames == {"clean_dir", "epochs_dir", "trials_dir", "export_dir",
             "evokeds_dir"}

\* Output locations: all given, none given, or one differing from the rest
DirChoices ==
    {ds \in [DirNames -> Dirs] :
        \E n \in DirNames : \A m, k \in DirNames \ {n} : ds[m] = ds[k]}

Configs ==
    {[bad_channels |-> bc, downsample_sfreq |-> sf, ocular_correction |-> oc,
      triggers |-> tr, clean_dir |-> ds["clean_dir"],
      epochs_dir |-> ds["epochs_dir"], trials_dir |-> ds["trials_dir"],
      export_dir |-> ds["export_dir"], evokeds_dir |-> ds["evokeds_dir"]] :
        bc \in BadChannelSpecs,
        sf \in {None, PyInt("250")},
        oc \in {None, Str("fastica")},
        tr \in {None, Dict(<<[k |-> "standard", v |-> Str("201")]>>)},
        ds \in DirChoices}

-----------------------------------------------------------------------------
(* Frames *)

Unset == [kind |-> "unset", pass |-> 0]
Made(kind, d) == [kind |-> kind, pass |-> d]

NoRet == [trials |-> Unset, evokeds |-> Unset, evokeds_df |-> Unset,
          config |-> 0]

\* A fresh invocation with keyword arguments args
NewFrame(args) ==
    [pc |-> "locals", args |-> args, config |-> 0, loc |-> args,
     bads |-> <<>>,
     auto_channels |-> None, trials |-> Unset, evokeds |-> Unset,
     evokeds_df |-> Unset, ret |-> NoRet]

\* Variant: the band-pass filter is applied before the ocular correction
ProgramOrderFilterFirst ==
    <<"locals", "read", "downsample", "add_eog", "montage", "interpolate",
      "reref", "filter", "ocular", "save_clean", "events", "epochs", "crop",
      "metadata", "get_bads", "decide", "trials", "save_epochs",
      "save_trials", "save_montage", "evokeds", "save_evokeds", "return">>

\* Statement order of the function body
ProgramOrder ==
    <<"locals", "read", "downsample", "add_eog", "montage", "interpolate",
      "reref", "ocular", "filter", "save_clean", "events", "epochs", "crop",
      "metadata", "get_bads", "decide", "trials", "save_epochs",
      "save_trials", "save_montage", "evokeds", "save_evokeds", "return">>

Pos(p) == CHOOSE i \in DOMAIN ProgramOrder : ProgramOrder[i] = p

After(p) == ProgramOrder[Pos(p) + 1]

Running == status = "running"

\* Frame d moves on to its next statement as f, having made the calls evs
Advance(d, f, evs) ==
    /\ frames' = [frames EXCEPT ![d] = [f EXCEPT !.pc = After(frames[d].pc)]]
    /\ log' = log \o [i \in DOMAIN evs |-> [pass |-> d, ev |-> evs[i]]]
    /\ UNCHANGED <<status, result, ioVars>>

At(d, p) == Running /\ frames[d].pc = p

-----------------------------------------------------------------------------
(* participant_pipeline, statement by statement *)

\* Variant: a restarted pass works on its caller's dict
LocalsAliased ==
    \E d \in DOMAIN frames :
        /\ At(d, "locals")
        /\ IF d > 1
           THEN /\ UNCHANGED heap
                /\ Advance(d, [frames[d] EXCEPT !.config =
                                  frames[d - 1].config], <<>>)
           ELSE /\ heap' = Append(heap, frames[d].loc)
                /\ Advance(d, [frames[d] EXCEPT !.config = Len(heap) + 1],
                           <<>>)

\* config = locals()
Locals ==
    \E d \in DOMAIN frames :
        /\ At(d, "locals")
        /\ heap' = Append(heap, frames[d].loc)
        /\ Advance(d, [frames[d] EXCEPT !.config = Len(heap) + 1], <<>>)

\* raw = read_raw_brainvision(vhdr_file, preload=True)
ReadRaw ==
    \E d \in DOMAIN frames :
        /\ At(d, "read")
        /\ Advance(d, frames[d], <<"read_raw_brainvision">>)
        /\ UNCHANGED heap

\* if downsample_sfreq is not None: ... raw.resample(downsample_sfreq)
Downsample ==
    \E d \in DOMAIN frames :
        /\ At(d, "downsample")
        /\ IF frames[d].loc.downsample_sfreq # None
           THEN Advance(d, [frames[d] EXCEPT !.loc.downsample_sfreq =
                                FloatCast(@)], <<"resample">>)
           ELSE Advance(d, frames[d], <<>>)
        /\ UNCHANGED heap

\* raw = add_heog_veog(raw, heog_channels, veog_channels)
AddEog ==
    \E d \in DOMAIN frames :
        /\ At(d, "add_eog")
        /\ Advance(d, frames[d], <<"add_heog_veog">>)
        /\ UNCHANGED heap

\* apply_montage(raw, montage)
Montage ==
    \E d \in DOMAIN frames :
        /\ At(d, "montage")
        /\ Advance(d, frames[d], <<"apply_montage">>)
        /\ UNCHANGED heap

\* Variant: an empty list is skipped as well
InterpolateGuardNonEmpty(bc) == bc # None /\ bc # Auto /\ bc # List(<<>>)

\* bad_channels is not None and bad_channels != 'auto'
InterpolateGuard(bc) == bc # None /\ bc # Auto

\* if isinstance(bad_channels, str): bad_channels = [bad_channels]
AsList(bc) == IF bc.tag = "str" THEN List(<<bc>>) ELSE bc

\* raw.info['bads'] = raw.info['bads'] + bad_channels; raw.interpolate_bads()
Interpolate ==
    \E d \in DOMAIN frames :
        /\ At(d, "interpolate")
        /\ IF InterpolateGuard(frames[d].loc.bad_channels)
           THEN LET bc == AsList(frames[d].loc.bad_channels)
                IN  Advance(d, [frames[d] EXCEPT !.loc.bad_channels = bc,
                                                 !.bads = @ \o bc.items],
                            <<"interpolate_bads">>)
           ELSE Advance(d, frames[d], <<>>)
        /\ UNCHANGED heap

\* _ = raw.set_eeg_reference('average')
Reref ==
    \E d \in DOMAIN frames :
        /\ At(d, "reref")
        /\ Advance(d, frames[d], <<"set_eeg_reference">>)
        /\ UNCHANGED heap

\* The ocular correction chosen for method oc when path.isfile(oc) = isfile
OcularPath(oc, isfile) ==
    IF oc = None THEN <<>>
    ELSE IF isfile THEN <<"correct_besa">> ELSE <<"correct_ica">>

\* if ocular_correction is not None: correct_besa(...) or correct_ica(...)
Ocular ==
    \E d \in DOMAIN frames :
        /\ At(d, "ocular")
        /\ \E isfile \in BOOLEAN :
              Advance(d, frames[d],
                      OcularPath(frames[d].loc.ocular_correction, isfile))
        /\ UNCHANGED heap

\* _ = raw.filter(highpass_freq, lowpass_freq)
Filter ==
    \E d \in DOMAIN frames :
        /\ At(d, "filter")
        /\ Advance(d, frames[d], <<"filter">>)
        /\ UNCHANGED heap

\* Variant: the directory is not tested
SinkAlways(dir, name) == <<name>>

\* The call a saving statement makes: none unless its directory is given
Sink(dir, name) == IF dir # None THEN <<name>> ELSE <<>>

\* if clean_dir is not None: save_clean(raw, clean_dir, participant_id)
SaveClean ==
    \E d \in DOMAIN frames :
        /\ At(d, "save_clean")
        /\ Advance(d, frames[d], Sink(frames[d].loc.clean_dir, "save_clean"))
        /\ UNCHANGED heap

\* events, event_id = events_from_annotations(...); triggers coerced to int
Events ==
    \E d \in DOMAIN frames :
        /\ At(d, "events")
        /\ IF frames[d].loc.triggers # None
           THEN Advance(d, [frames[d] EXCEPT !.loc.triggers = IntCoerce(@)],
                        <<"events_from_annotations">>)
           ELSE Advance(d, frames[d], <<"events_from_annotations">>)
        /\ UNCHANGED heap

\* epochs = Epochs(raw, events, event_id, ...)
MakeEpochs ==
    \E d \in DOMAIN frames :
        /\ At(d, "epochs")
        /\ Advance(d, frames[d], <<"Epochs">>)
        /\ UNCHANGED heap

\* _ = epochs.crop(epochs_tmin, epochs_tmax, include_tmax=False)
Crop ==
    \E d \in DOMAIN frames :
        /\ At(d, "crop")
        /\ Advance(d, frames[d], <<"crop">>)
        /\ UNCHANGED heap

\* epochs.metadata = read_log(...); insert participant_id column
Metadata ==
    \E d \in DOMAIN frames :
        /\ At(d, "metadata")
        /\ Advance(d, frames[d], <<"read_log">>)
        /\ UNCHANGED heap

\* bad_ixs, auto_channels = get_bads(epochs, reject_peak_to_peak, reject_flat)
GetBads ==
    \E d \in DOMAIN frames :
        /\ At(d, "get_bads")
        /\ \E found \in ChannelLists :
              Advance(d, [frames[d] EXCEPT !.auto_channels = found],
                      <<"get_bads">>)
        /\ UNCHANGED heap

\* Variant: the 'auto' test is missing
RestartsIgnoringSpec(f) == f.auto_channels # List(<<>>)

\* if bad_channels == 'auto': if auto_channels != []:
Restarts(f) == f.loc.bad_channels = Auto /\ f.auto_channels # List(<<>>)

\* config['bad_channels'] = auto_channels (assignment into the dict at ref)
SetBadChannels(h, ref, value) == [h EXCEPT ![ref].bad_channels = value]

\* The keyword arguments of participant_pipeline(**config)
RetryArgs(f, h) == h[f.config]

\* config['bad_channels'] = auto_channels; participant_pipeline(**config)
Restart ==
    \E d \in DOMAIN frames :
        /\ At(d, "decide")
        /\ Restarts(frames[d])
        /\ Len(frames) < MaxDepth
        /\ heap' = SetBadChannels(heap, frames[d].config,
                                  frames[d].auto_channels)
        /\ frames' = Append([frames EXCEPT ![d].pc = "call"],
                            NewFrame(RetryArgs(frames[d], heap')))
        /\ UNCHANGED <<log, status, result, ioVars>>

\* Variant: the else branch leaves the sentinel in place
NoChannelsValueAuto == Auto

\* The value stored by the else branch: config['bad_channels'] = []
NoChannelsValue == List(<<>>)

\* bad_channels == 'auto' and auto_channels == []: config['bad_channels'] = []
NoChannels ==
    \E d \in DOMAIN frames :
        /\ At(d, "decide")
        /\ frames[d].loc.bad_channels = Auto
        /\ ~Restarts(frames[d])
        /\ heap' = SetBadChannels(heap, frames[d].config, NoChannelsValue)
        /\ Advance(d, frames[d], <<>>)

\* bad_channels != 'auto': fall through
KeepSpec ==
    \E d \in DOMAIN frames :
        /\ At(d, "decide")
        /\ frames[d].loc.bad_channels # Auto
        /\ Advance(d, frames[d], <<>>)
        /\ UNCHANGED heap

\* Variant: the caller keeps its own config and returns that
RestartResultOwnConfig(f, callee) == [callee.ret EXCEPT !.config = f.config]

\* What the caller at line 114 returns given the callee's return value
RestartResult(f, callee) == callee.ret

\* trials, evokeds, evokeds_df, config = participant_pipeline(**config); return
ReturnFromRestart ==
    \E d \in DOMAIN frames :
        /\ Running
        /\ frames[d].pc = "call"
        /\ d + 1 \in DOMAIN frames
        /\ frames[d + 1].pc = "done"
        /\ LET r == RestartResult(frames[d], frames[d + 1])
           IN  /\ frames' = [frames EXCEPT ![d] =
                    [@ EXCEPT !.pc = "done", !.trials = r.trials,
                              !.evokeds = r.evokeds,
                              !.evokeds_df = r.evokeds_df,
                              !.config = r.config, !.ret = r]]
               /\ IF d = 1
                  THEN status' = "returned" /\ result' = r
                  ELSE UNCHANGED <<status, result>>
        /\ UNCHANGED <<heap, log, ioVars>>

\* trials = compute_single_trials(epochs, components, bad_ixs)
Trials ==
    \E d \in DOMAIN frames :
        /\ At(d, "trials")
        /\ Advance(d, [frames[d] EXCEPT !.trials = Made("trials", d)],
                   <<"compute_single_trials">>)
        /\ UNCHANGED heap

\* if epochs_dir is not None: save_epochs(...)
SaveEpochs ==
    \E d \in DOMAIN frames :
        /\ At(d, "save_epochs")
        /\ Advance(d, frames[d], Sink(frames[d].loc.epochs_dir, "save_epochs"))
        /\ UNCHANGED heap

\* if trials_dir is not None: save_df(trials, ..., suffix='trials')
SaveTrials ==
    \E d \in DOMAIN frames :
        /\ At(d, "save_trials")
        /\ Advance(d, frames[d], Sink(frames[d].loc.trials_dir, "save_df"))
        /\ UNCHANGED heap

\* if export_dir is not None: save_montage(epochs, export_dir)
SaveMontage ==
    \E d \in DOMAIN frames :
        /\ At(d, "save_montage")
        /\ Advance(d, frames[d],
                   Sink(frames[d].loc.export_dir, "save_montage"))
        /\ UNCHANGED heap

\* evokeds, evokeds_df = compute_evokeds(...)
Evokeds ==
    \E d \in DOMAIN frames :
        /\ At(d, "evokeds")
        /\ Advance(d, [frames[d] EXCEPT !.evokeds = Made("evokeds", d),
                                        !.evokeds_df = Made("evokeds_df", d)],
                   <<"compute_evokeds">>)
        /\ UNCHANGED heap

\* if evokeds_dir is not None: save_evokeds(...)
SaveEvokeds ==
    \E d \in DOMAIN frames :
        /\ At(d, "save_evokeds")
        /\ Advance(d, frames[d],
                   Sink(frames[d].loc.evokeds_dir, "save_evokeds"))
        /\ UNCHANGED heap

\* return trials, evokeds, evokeds_df, config
Return ==
    \E d \in DOMAIN frames :
        /\ At(d, "return")
        /\ LET r == [trials |-> frames[d].trials,
                     evokeds |-> frames[d].evokeds,
                     evokeds_df |-> frames[d].evokeds_df,
                     config |-> frames[d].config]
           IN  /\ frames' = [frames EXCEPT ![d] =
                                [@ EXCEPT !.pc = "done", !.ret = r]]
               /\ IF d = 1
                  THEN status' = "returned" /\ result' = r
                  ELSE UNCHANGED <<status, result>>
        /\ UNCHANGED <<heap, log, ioVars>>

\* The statement frame f is about to execute calls a collaborator
CallsOut(f) ==
    CASE f.pc \in {"read", "add_eog", "montage", "reref", "filter", "events",
                   "epochs", "crop", "metadata", "get_bads", "trials",
                   "evokeds"} -> TRUE
      [] f.pc = "downsample" -> f.loc.downsample_sfreq # None
      [] f.pc = "interpolate" -> InterpolateGuard(f.loc.bad_channels)
      [] f.pc = "ocular" -> f.loc.ocular_correction # None
      [] f.pc = "save_clean" -> f.loc.clean_dir # None
      [] f.pc = "save_epochs" -> f.loc.epochs_dir # None
      [] f.pc = "save_trials" -> f.loc.trials_dir # None
      [] f.pc = "save_montage" -> f.loc.export_dir # None
      [] f.pc = "save_evokeds" -> f.loc.evokeds_dir # None
      [] OTHER -> FALSE

\* A collaborator raises: nothing catches it, the exception reaches the caller
Raise ==
    \E d \in DOMAIN frames :
        /\ Running
        /\ CallsOut(frames[d])
        /\ status' = "raised"
        /\ UNCHANGED <<frames, heap, log, result, ioVars>>

-----------------------------------------------------------------------------
(* pipeline/io.py: per-participant inputs *)

\* Variant: all() in place of any()
is_nested_list_all(x) ==
    IF x.tag = "list"
    THEN \A i \in DOMAIN x.items : x.items[i].tag = "list"
    ELSE FALSE

\* is_nested_list(input)
is_nested_list(x) ==
    IF x.tag = "list"
    THEN \E i \in DOMAIN x.items : x.items[i].tag = "list"
    ELSE FALSE

\* participant_dict[k] = v on an insertion-ordered dict (sequence of entries)
DictSet(ps, k, v) ==
    IF \E i \in DOMAIN ps : ps[i].k = k
    THEN [i \in DOMAIN ps |-> IF ps[i].k = k THEN [k |-> k, v |-> v]
                                             ELSE ps[i]]
    ELSE Append(ps, [k |-> k, v |-> v])

\* participant_dict = {id: None for id in participant_ids}
RECURSIVE FromKeys(_, _)
FromKeys(ids, acc) ==
    IF ids = <<>> THEN acc
    ELSE FromKeys(Tail(ids), DictSet(acc, Head(ids), None))

\* Variant: the assertion is missing
RECURSIVE FillDictUnchecked(_, _, _)
FillDictUnchecked(entries, ids, acc) ==
    IF entries = <<>> THEN [raised |-> FALSE, value |-> acc]
    ELSE FillDictUnchecked(Tail(entries), ids,
                           DictSet(acc, Head(entries).k, Head(entries).v))

\* for id, values in input.items(): assert id in participant_ids; store
RECURSIVE FillDict(_, _, _)
FillDict(entries, ids, acc) ==
    IF entries = <<>> THEN [raised |-> FALSE, value |-> acc]
    ELSE IF Head(entries).k \notin Range(ids)
         THEN [raised |-> TRUE, value |-> <<>>]
         ELSE FillDict(Tail(entries), ids,
                       DictSet(acc, Head(entries).k, Head(entries).v))

\* Variant: a flat list as long as participant_ids is handed back as it is
check_participant_input_flat(x, ids) ==
    IF x.tag = "dict"
    THEN LET filled == FillDict(x.items, ids, FromKeys(ids, <<>>))
         IN  IF filled.raised
             THEN [raised |-> TRUE, value |-> None]
             ELSE [raised |-> FALSE,
                   value |-> DictValues([i \in DOMAIN filled.value |->
                                            filled.value[i].v])]
    ELSE IF x.tag = "list" /\ Len(x.items) = Len(ids)
         THEN [raised |-> FALSE, value |-> x]
         ELSE IF is_nested_list(x)
              THEN [raised |-> TRUE, value |-> None]
              ELSE [raised |-> FALSE, value |-> List([i \in DOMAIN ids |-> x])]

\* check_participant_input(input, participant_ids)
check_participant_input(x, ids) ==
    IF x.tag = "dict"
    THEN LET filled == FillDict(x.items, ids, FromKeys(ids, <<>>))
         IN  IF filled.raised
             THEN [raised |-> TRUE, value |-> None]
             ELSE [raised |-> FALSE,
                   value |-> DictValues([i \in DOMAIN filled.value |->
                                            filled.value[i].v])]
    ELSE IF is_nested_list(x)
         THEN IF Len(x.items) = Len(ids)
              THEN [raised |-> FALSE, value |-> x]
              ELSE [raised |-> TRUE, value |-> None]
         ELSE [raised |-> FALSE, value |-> List([i \in DOMAIN ids |-> x])]

\* One call of check_participant_input
CheckParticipantInput ==
    /\ io_pc = "call"
    /\ LET r == check_participant_input(input, participant_ids)
       IN  /\ io_pc' = IF r.raised THEN "raised" ELSE "returned"
           /\ io_result' = r.value
    /\ UNCHANGED <<input, participant_ids, pipeVars>>

Ids == {"p1", "p2"}

Keys == Ids \cup {"zz"}

Elems == {None, Str("a"), List(<<>>), List(<<Str("a")>>)}

DictEntries == [k : Keys, v : Elems]

Overrides ==
    {None, Str("a"), PyInt("1")}
    \cup {List(xs) : xs \in SeqsUpTo(Elems, MaxLen)}
    \cup {Dict(ps) : ps \in {qs \in SeqsUpTo(DictEntries, MaxLen) :
              \A i, j \in DOMAIN qs : qs[i].k = qs[j].k => i = j}}

PipeIdle ==
    /\ frames = <<>>
    /\ heap = <<>>
    /\ log = <<>>
    /\ status = "idle"
    /\ result = NoRet

InitIO ==
    /\ input \in Overrides
    /\ participant_ids \in SeqsUpTo(Ids, MaxIds)
    /\ io_pc = "call"
    /\ io_result = None
    /\ PipeIdle

NextIO == CheckParticipantInput

SpecIO == InitIO /\ [][NextIO]_vars

-----------------------------------------------------------------------------

IoIdle ==
    /\ input = None
    /\ participant_ids = <<>>
    /\ io_pc = "idle"
    /\ io_result = None

Init ==
    /\ \E args \in Configs : frames = <<NewFrame(args)>>
    /\ heap = <<>>
    /\ log = <<>>
    /\ status = "running"
    /\ result = NoRet
    /\ IoIdle

Next ==
    \/ Locals
    \/ ReadRaw
    \/ Downsample
    \/ AddEog
    \/ Montage
    \/ Interpolate
    \/ Reref
    \/ Ocular
    \/ Filter
    \/ SaveClean
    \/ Events
    \/ MakeEpochs
    \/ Crop
    \/ Metadata
    \/ GetBads
    \/ Restart
    \/ NoChannels
    \/ KeepSpec
    \/ ReturnFromRestart
    \/ Trials
    \/ SaveEpochs
    \/ SaveTrials
    \/ SaveMontage
    \/ Evokeds
    \/ SaveEvokeds
    \/ Return
    \/ Raise

Spec == Init /\ [][Next]_vars

-----------------------------------------------------------------------------
(* Properties *)

\* Collaborator call ev has been made by pass d
Ran(d, ev) == \E i \in DOMAIN log : log[i] = [pass |-> d, ev |-> ev]

\* Pass d handed over to a restarted pass
Restarted(d) == d + 1 \in DOMAIN frames

\* Position of the statement pass d is at (one past the end once it returned)
Progress(d) ==
    IF Restarted(d) THEN Pos("decide")
    ELSE IF frames[d].pc = "done" THEN Len(ProgramOrder) + 1
    ELSE Pos(frames[d].pc)

\* Pass d has gone past statement p
Executed(d, p) == Pos(p) < Progress(d)

\* Statements left to run, summed over the passes, plus one until the end
Remaining ==
    LET left(d) == IF frames[d].pc = "done" THEN 0
                   ELSE IF frames[d].pc = "call" THEN 1
                   ELSE 2 + Len(ProgramOrder) - Pos(frames[d].pc)
        RECURSIVE sum(_)
        sum(d) == IF d = 0 THEN 0 ELSE left(d) + sum(d - 1)
    IN  sum(Len(frames)) + (MaxDepth - Len(frames)) * (2 + Len(ProgramOrder))
        + (IF Running THEN 1 ELSE 0)

C1_PassBound ==
    /\ Len(frames) <= 2
    /\ \A d \in DOMAIN frames :
          /\ d > 1 => frames[d].pc # "call"
          /\ Restarted(d) =>
                /\ frames[d].args.bad_channels = Auto
                /\ frames[d].auto_channels \in ChannelLists \ {List(<<>>)}

\* C1: whatever the bad_channels spec and whatever the detector reports, a
\* call runs at most two passes and every step brings it nearer to its end;
\* a pass hands over to a restart only if its own spec is 'auto' and its
\* detector reported a non-empty list, and a restarted pass never restarts.
C1_AtMostTwoPasses ==
    /\ []C1_PassBound
    /\ [][Remaining' < Remaining /\ Remaining' >= 0]_vars

C1_Witness ==
    /\ status = "returned"
    /\ Len(frames) = 2
    /\ frames[2].auto_channels # List(<<>>)
    /\ frames[2].auto_channels # None

\* C2: after a restart, pass 2 was invoked with the detected list as its
\* bad_channels and every other argument equal to pass 1's, pass 2 does not
\* restart although its detector may flag channels again, pass 1 computes
\* neither trials nor evokeds, and the caller receives pass 2's four values.
C2_RetryRunsOnceAndIsReturned ==
    \A d \in DOMAIN frames :
        Restarted(d) =>
            /\ frames[d + 1].args =
                  [frames[d].args EXCEPT !.bad_channels =
                                            frames[d].auto_channels]
            /\ frames[d + 1].args.bad_channels.tag = "list"
            /\ frames[d + 1].pc # "call"
            /\ ~Ran(d, "compute_single_trials")
            /\ ~Ran(d, "compute_evokeds")
            /\ frames[d].pc = "done" =>
                  /\ frames[d + 1].pc = "done"
                  /\ frames[d].ret = frames[d + 1].ret
                  /\ frames[d].ret.trials = Made("trials", d + 1)
                  /\ frames[d].ret.evokeds = Made("evokeds", d + 1)
                  /\ frames[d].ret.evokeds_df = Made("evokeds_df", d + 1)
                  /\ frames[d].ret.config = frames[d + 1].config
                  /\ frames[d].ret.config # 0
            /\ (d = 1 /\ status = "returned") => result = frames[2].ret

C2_Witness ==
    /\ status = "returned"
    /\ Len(frames) = 2
    /\ frames[2].auto_channels \notin {None, List(<<>>)}
    /\ frames[1].args.downsample_sfreq # None
    /\ frames[1].args.triggers # None

\* Place of a collaborator call in the chain of stages (0: not a stage)
C3_Rank(ev) ==
    CASE ev = "resample" -> 1
      [] ev = "add_heog_veog" -> 2
      [] ev = "apply_montage" -> 3
      [] ev = "interpolate_bads" -> 4
      [] ev = "set_eeg_reference" -> 5
      [] ev \in {"correct_besa", "correct_ica"} -> 6
      [] ev = "filter" -> 7
      [] ev \in {"events_from_annotations", "Epochs", "crop", "read_log",
                 "get_bads"} -> 8
      [] OTHER -> 0

\* The stage calls of pass d, in the order they were made
C3_Stages(d) ==
    LET mine(e) == e.pass = d /\ C3_Rank(e.ev) > 0
    IN  SelectSeq(log, mine)

\* C3: within a pass the preprocessing stages run in the order resample, add
\* ocular channels, montage, interpolation, re-reference, ocular correction,
\* filter, each at most once, before the events, epochs, crop, metadata and
\* detection; a given target rate is resampled to before any other stage; a
\* pass that reaches the events has re-referenced and filtered exactly once;
\* at most one ocular correction path runs.
C3_StageOrder ==
    /\ \A d \in DOMAIN frames :
          LET stages == C3_Stages(d)
          IN  \A k \in 1..(Len(stages) - 1) :
                 C3_Rank(stages[k + 1].ev) <= 7
                    => C3_Rank(stages[k].ev) < C3_Rank(stages[k + 1].ev)
    /\ \A d \in DOMAIN frames :
          /\ (\E i \in DOMAIN log : log[i].pass = d /\ C3_Rank(log[i].ev) = 8)
                => Ran(d, "set_eeg_reference") /\ Ran(d, "filter")
          /\ (/\ frames[d].args.downsample_sfreq # None
              /\ \E i \in DOMAIN log :
                    log[i].pass = d /\ C3_Rank(log[i].ev) > 1)
                => Ran(d, "resample")
          /\ ~(Ran(d, "correct_besa") /\ Ran(d, "correct_ica"))

C3_Witness ==
    /\ Ran(2, "resample")
    /\ Ran(2, "interpolate_bads")
    /\ Ran(2, "correct_besa")
    /\ Ran(2, "get_bads")
    /\ Ran(1, "correct_ica")

\* A spec naming at least one channel: a name or a non-empty list
C4_NamesChannels(bc) ==
    \/ bc.tag = "str" /\ bc # Auto
    \/ bc.tag = "list" /\ bc # List(<<>>)

\* C4 as stated: interpolation runs only for an explicit non-empty spec
C4_OnlyNonEmpty ==
    \A d \in DOMAIN frames :
        Ran(d, "interpolate_bads")
            => C4_NamesChannels(frames[d].args.bad_channels)

\* C4 (amended): interpolation runs exactly when the pass's spec is neither
\* None nor 'auto', so also for the empty list; it marks the spec's channels
\* (a single name counting as a one-element list) before interpolating.
C4_InterpolatesUnlessNoneOrAuto ==
    \A d \in DOMAIN frames :
        LET bc == frames[d].args.bad_channels
        IN  /\ Ran(d, "interpolate_bads") <=>
                  (Executed(d, "interpolate") /\ bc \notin {None, Auto})
            /\ Ran(d, "interpolate_bads") =>
                  frames[d].bads = (IF bc.tag = "str" THEN <<bc>>
                                    ELSE bc.items)
            /\ ~Ran(d, "interpolate_bads") => frames[d].bads = <<>>

C4_Witness ==
    /\ frames[1].args.bad_channels = List(<<>>)
    /\ Ran(1, "interpolate_bads")
    /\ Executed(1, "reref")

\* C5 as stated: the record captured at entry still says 'auto' after the
\* restart decision, and the restarted pass has a record of its own
C5_OriginalUntouched ==
    \A d \in DOMAIN frames :
        frames[d].pc = "call" =>
            /\ heap[frames[d].config].bad_channels = Auto
            /\ frames[d + 1].config # frames[d].config

\* C5 (amended): the restart overwrites bad_channels of pass 1's own record
\* with the detected list and leaves its other fields as passed; the record
\* pass 2 captures is a different object with equal contents.
C5_RetryOverwritesInPlace ==
    \A d \in DOMAIN frames :
        frames[d].pc = "call" =>
            /\ heap[frames[d].config] =
                  [frames[d].args EXCEPT !.bad_channels =
                                            frames[d].auto_channels]
            /\ frames[d + 1].config # frames[d].config
            /\ frames[d + 1].config # 0 =>
                  heap[frames[d + 1].config] = heap[frames[d].config]

C5_Witness ==
    /\ Len(frames) = 2
    /\ frames[1].pc = "call"
    /\ frames[2].config # 0
    /\ frames[2].pc = "return"

\* A list none of whose elements is a list
C6_Flat(x) ==
    x.tag = "list" /\ \A i \in DOMAIN x.items : x.items[i].tag # "list"

\* C6 as stated: a flat list as long as participant_ids comes back unchanged,
\* a scalar comes back as that many copies
C6_FlatListUnchanged ==
    io_pc # "call" =>
        /\ (C6_Flat(input) /\ Len(input.items) = Len(participant_ids))
              => io_pc = "returned" /\ io_result = input
        /\ input.tag \in {"none", "str", "int"}
              => /\ io_pc = "returned"
                 /\ io_result = List([i \in DOMAIN participant_ids |-> input])

\* C6 (amended): a flat list of any length, like a scalar, comes back as a
\* list with one copy of the whole value per participant id.
C6_FlatListBroadcast ==
    (io_pc # "call" /\ (C6_Flat(input) \/ input.tag \in {"none", "str", "int"}))
        => /\ io_pc = "returned"
           /\ io_result.tag = "list"
           /\ Len(io_result.items) = Len(participant_ids)
           /\ \A i \in DOMAIN io_result.items : io_result.items[i] = input

C6_Witness ==
    /\ io_pc = "returned"
    /\ C6_Flat(input)
    /\ Len(input.items) = Len(participant_ids)
    /\ Len(participant_ids) = 2

\* The ids in order, each kept at its first occurrence only
C7_Distinct(ids) ==
    LET keep == {i \in DOMAIN ids : \A j \in 1..(i - 1) : ids[j] # ids[i]}
        RECURSIVE pick(_)
        pick(i) == IF i > Len(ids) THEN <<>>
                   ELSE IF i \in keep THEN <<ids[i]>> \o pick(i + 1)
                   ELSE pick(i + 1)
    IN  pick(1)

\* The value the mapping m holds for id, None if it has none
C7_Lookup(m, id) ==
    IF \E i \in DOMAIN m.items : m.items[i].k = id
    THEN m.items[CHOOSE i \in DOMAIN m.items : m.items[i].k = id].v
    ELSE None

\* C7: a mapping with a key that is no participant id makes the call fail
\* without a value; otherwise the result holds one entry per participant id,
\* in the order of participant_ids: the mapped value, or None when missing.
C7_MappingPerParticipant ==
    (io_pc # "call" /\ input.tag = "dict") =>
        IF \E i \in DOMAIN input.items :
              input.items[i].k \notin Range(participant_ids)
        THEN io_pc = "raised" /\ io_result = None
        ELSE /\ io_pc = "returned"
             /\ io_result.tag = "dict_values"
             /\ io_result.items =
                   [i \in DOMAIN C7_Distinct(participant_ids) |->
                       C7_Lookup(input, C7_Distinct(participant_ids)[i])]

C7_Witness ==
    /\ io_pc = "returned"
    /\ input.tag = "dict"
    /\ Len(input.items) = 1
    /\ input.items[1].v # None
    /\ participant_ids = <<"p1", "p2">>
    /\ input.items[1].k = "p2"

\* C8: is_nested_list holds exactly of a list with a list among its elements;
\* such an override fails when its length differs from the number of
\* participant ids and is returned unchanged when the lengths agree.
C8_NestedListLength ==
    /\ is_nested_list(input) <=>
          (input.tag = "list" /\ ~C6_Flat(input))
    /\ (io_pc # "call" /\ input.tag = "list" /\ ~C6_Flat(input)) =>
          IF Len(input.items) = Len(participant_ids)
          THEN io_pc = "returned" /\ io_result = input
          ELSE io_pc = "raised" /\ io_result = None

C8_Witness ==
    /\ io_pc = "raised"
    /\ input = List(<<Str("a"), List(<<Str("a")>>)>>)
    /\ Len(participant_ids) = 1

\* The saving statements, the directory each tests and the call each makes
C9_Sinks ==
    {<<"save_clean", "clean_dir", "save_clean">>,
     <<"save_epochs", "epochs_dir", "save_epochs">>,
     <<"save_trials", "trials_dir", "save_df">>,
     <<"save_montage", "export_dir", "save_montage">>,
     <<"save_evokeds", "evokeds_dir", "save_evokeds">>}

C9_WrittenBeforeFailure ==
    status = "raised" =>
        \A d \in DOMAIN frames : \A s \in C9_Sinks :
            Ran(d, s[3]) <=>
                (Executed(d, s[1]) /\ frames[d].args[s[2]] # None)

C10_ReturnedConfig ==
    status = "returned" =>
        LET c == heap[result.config]
            a == frames[1].args
            found == frames[1].auto_channels
        IN  /\ c.bad_channels # Auto
            /\ c.bad_channels =
                  (IF a.bad_channels = Auto
                   THEN (IF found # List(<<>>) THEN found ELSE List(<<>>))
                   ELSE a.bad_channels)
            /\ c = [a EXCEPT !.bad_channels = c.bad_channels]
            /\ Restarted(1) <=> (a.bad_channels = Auto /\ found # List(<<>>))

C10_Witness ==
    /\ status = "returned"
    /\ frames[1].args.bad_channels = Auto
    /\ frames[1].auto_channels = List(<<>>)
    /\ frames[1].loc.downsample_sfreq = PyFloat("250")
    /\ frames[1].loc.triggers # frames[1].args.triggers

====
